---- MODULE Spec2Model ----
(***************************************************************************)
(* State-machine model of the differential oracle of checker.py: one       *)
(* Checker (its DependencyIndex field_conditions_map), the check() calls   *)
(* made on it for successive generations, and the pure helpers             *)
(* check_input and _list_matched_fields.                                   *)
(*                                                                         *)
(* Encoding.  TLC cannot compare values of different types, so every       *)
(* Python value is encoded uniformly:                                      *)
(*   - a path atom is a string; the integer index n is the string "#n";    *)
(*   - a scalar is a string: "None", "NotPresent", the booleans "True"     *)
(*     and "False", integers "3", Python strings in quotes "'true'", the   *)
(*     empty containers "{}" and "[]";                                     *)
(*   - a document (nested dict/list) is a function from its leaf paths to  *)
(*     scalars; a scalar value v is the document (<<>> :> v);              *)
(*   - a text (stdout, stderr, a log message) is a sequence of words, and  *)
(*     str.find is the search for a contiguous run of words.               *)
(***************************************************************************)
EXTENDS Integers, Sequences, FiniteSets, TLC

VARIABLES
    context,               \* self.context: enable_analysis, analysis_result
    input_model,           \* self.input_model: the input schema
    field_conditions_map,  \* self.field_conditions_map (the DependencyIndex)
    caller,                \* who runs the Checker: "driver" (lines 494-642) or "client"
    trial,                 \* the number of Checkers built on the context so far, less one
    snapshots,             \* the driver's list `snapshots`
    generation,            \* the loop counter
    pc,                    \* "idle"; "checked": check() is back; "counted"
    args,                  \* the arguments of the last check(), as passed
    map_constructed,       \* field_conditions_map at the end of the last __init__
    map_before,            \* field_conditions_map when the last check() began
    snapshot,              \* the snapshot object after the last check()
    prev_snapshot,         \* the prev_snapshot object after the last check()
    result,                \* what the last check() returned (or raised)
    num_fields,            \* what the last count_num_fields() returned
    num_alarms,            \* the driver's num_alarms
    alarm,                 \* the driver's alarm
    num_system_fields_list,  \* the driver's num_system_fields_list
    num_delta_fields_list,   \* the driver's num_delta_fields_list
    cli,                   \* check_input's arguments (SpecInput)
    input_result,          \* check_input's return value (SpecInput)
    match_args,            \* _list_matched_fields' arguments (SpecMatch)
    match_result           \* _list_matched_fields' return value (SpecMatch)

vars == <<context, input_model, field_conditions_map, caller, trial, snapshots,
          generation, pc, args, map_constructed, map_before, snapshot,
          prev_snapshot, result, num_fields, num_alarms, alarm,
          num_system_fields_list, num_delta_fields_list, cli, input_result,
          match_args, match_result>>

\* range(0, 20) of the generation loop (line 573).
Generations == 20

\* The generations explored: 0 .. MaxGeneration, of the loop's Generations.
MaxGeneration == 1

\* The Checkers built on one context after the first.
MaxTrials == 1

(***************************************************************************)
(* Values and documents                                                    *)
(***************************************************************************)
V(s) == (<< >> :> s)

None == V("None")

NotPresent == V("NotPresent")

IsScalar(v) == DOMAIN v = {<< >>}

IsPrefix(p, q) == Len(p) <= Len(q) /\ SubSeq(q, 1, Len(p)) = p

Tail0(q, n) == SubSeq(q, n + 1, Len(q))

\* Every node of document t: the prefixes of its leaf paths.
Nodes(t) == UNION {{SubSeq(l, 1, k) : k \in 0..Len(l)} : l \in DOMAIN t}

\* A dict or list node: an inner node, or a leaf holding an empty container.
IsContainer(t, p) ==
    /\ p \in Nodes(t)
    /\ (p \in DOMAIN t => t[p] \in {"{}", "[]"})

\* The value found at node p of t (a scalar or a sub-document).
Sub(t, p) ==
    IF p \in DOMAIN t THEN V(t[p])
    ELSE LET under == {l \in DOMAIN t : IsPrefix(p, l)}
         IN  [q \in {Tail0(l, Len(p)) : l \in under} |-> t[p \o q]]

ValueAt(t, p) == IF p \in Nodes(t) THEN Sub(t, p) ELSE NotPresent

\* Python's == on scalars: True == 1 and False == 0, otherwise identity.
Num(s) == IF s = "True" THEN "1" ELSE IF s = "False" THEN "0" ELSE s

PyEq(a, b) == [p \in DOMAIN a |-> Num(a[p])] = [p \in DOMAIN b |-> Num(b[p])]

IsBool(v) == v \in {V("True"), V("False")}

(***************************************************************************)
(* Texts                                                                   *)
(***************************************************************************)
\* str.find(sub) != -1
Find(text, sub) ==
    \E i \in 1..(Len(text) - Len(sub) + 1) :
        SubSeq(text, i, i + Len(sub) - 1) = sub

(***************************************************************************)
(* Differ: DeepDiff(view='tree') followed by postprocess_diff               *)
(***************************************************************************)
\* The atoms of the modelled documents, in the order diffs are listed.
AtomOrder ==
    <<"spec", "metadata", "status", "db", "web", "replicas", "tls", "enabled",
      "cert", "sub", "x", "name", "items", "#0", "resourceVersion", "Replicas">>

Rank(a) == CHOOSE i \in 1..Len(AtomOrder) : AtomOrder[i] = a

RECURSIVE PathLess(_, _)
PathLess(p, q) ==
    IF p = << >> THEN q # << >>
    ELSE IF q = << >> THEN FALSE
    ELSE IF Head(p) = Head(q) THEN PathLess(Tail(p), Tail(q))
    ELSE Rank(Head(p)) < Rank(Head(q))

\* A path is pruned when one of the exclude regexes is found in it.
Excluded(p, exclude) == \E i \in 1..Len(p) : p[i] \in exclude

\* The changed nodes: the topmost nodes where the two documents differ and at
\* least one side is not a container (a changed value, an added or a removed item).
DiffPaths(t1, t2, exclude) ==
    {p \in Nodes(t1) \cup Nodes(t2) :
        /\ \A k \in 0..(Len(p) - 1) :
              IsContainer(t1, SubSeq(p, 1, k)) /\ IsContainer(t2, SubSeq(p, 1, k))
        /\ ~(IsContainer(t1, p) /\ IsContainer(t2, p))
        /\ ValueAt(t1, p) # ValueAt(t2, p)
        /\ ~Excluded(p, exclude)}

Diff(prev, curr, path) == [path |-> path, prev |-> prev, curr |-> curr]

RECURSIVE SortedByPath(_)
SortedByPath(S) ==
    IF S = {} THEN << >>
    ELSE LET first == CHOOSE d \in S : \A e \in S \ {d} : PathLess(d.path, e.path)
         IN  <<first>> \o SortedByPath(S \ {first})

\* postprocess_diff(DeepDiff(t1, t2, ...)): the Diff records, in listing order.
postprocess_diff(t1, t2, exclude) ==
    SortedByPath({Diff(ValueAt(t1, p), ValueAt(t2, p), p) :
                    p \in DiffPaths(t1, t2, exclude)})

\* The resource kinds, in the order system_state lists them.
KindOrder == <<"custom_resource_spec", "stateful_set", "deployment">>

Kinds == {KindOrder[i] : i \in 1..Len(KindOrder)}

EmptyDict == V("{}")

\* get_deltas with the exclude regexes applied to the input diff as well.
get_deltas_exclude_input(snap, prev_snap, exclude) ==
    LET curr_system_state == snap.system_state
        prev_system_state ==
            [r \in DOMAIN prev_snap.system_state \cup DOMAIN curr_system_state |->
                IF r \in DOMAIN prev_snap.system_state
                THEN prev_snap.system_state[r] ELSE EmptyDict]
    IN  [input_delta |-> postprocess_diff(prev_snap.input, snap.input, exclude),
         system_state_delta |->
            [r \in DOMAIN curr_system_state |->
                postprocess_diff(prev_system_state[r], curr_system_state[r], exclude)],
         prev_system_state |-> prev_system_state]

\* get_deltas: the input delta, the system-state delta per resource kind, and
\* prev_snapshot.system_state as the loop of lines 481-483 leaves it.
get_deltas(snap, prev_snap, exclude) ==
    LET curr_system_state == snap.system_state
        prev_system_state ==
            [r \in DOMAIN prev_snap.system_state \cup DOMAIN curr_system_state |->
                IF r \in DOMAIN prev_snap.system_state
                THEN prev_snap.system_state[r] ELSE EmptyDict]
    IN  [input_delta |-> postprocess_diff(prev_snap.input, snap.input, {}),
         system_state_delta |->
            [r \in DOMAIN curr_system_state |->
                postprocess_diff(prev_system_state[r], curr_system_state[r], exclude)],
         prev_system_state |-> prev_system_state]

(***************************************************************************)
(* RunResult                                                               *)
(***************************************************************************)
NoPath == <<"<None>">>

NoDelta == Diff(None, None, NoPath)

PassResult == [type |-> "Pass"]

UnchangedInputResult == [type |-> "Unchanged"]

ConnectionRefusedResult == [type |-> "ConnectionRefused"]

InvalidInputResult(responsible_field) ==
    [type |-> "InvalidInput", responsible_field |-> responsible_field]

ErrorResult(oracle, message, input_delta, matched_delta) ==
    [type |-> "Error", oracle |-> oracle, message |-> message,
     input_delta |-> input_delta, matched_system_delta |-> matched_delta]

\* An exception that leaves the function instead of a return value.
Raised(exception) == [type |-> "Raise", exception |-> exception]

(***************************************************************************)
(* Collaborators of the oracles                                            *)
(***************************************************************************)
\* The decimal digits, each at the position of its value plus one.
DigitChars == <<"0", "1", "2", "3", "4", "5", "6", "7", "8", "9">>

IsDigitChar(char) == \E i \in 1..Len(DigitChars) : DigitChars[i] = char

DigitValue(char) == (CHOOSE i \in 1..Len(DigitChars) : DigitChars[i] = char) - 1

\* A non-empty string of decimal digits.
IsDigits(text) ==
    /\ Len(text) >= 1
    /\ \A i \in 1..Len(text) : IsDigitChar(SubSeq(text, i, i))

\* The natural number a string of decimal digits writes.
RECURSIVE Natural(_)
Natural(text) ==
    IF Len(text) = 0 THEN 0
    ELSE 10 * Natural(SubSeq(text, 1, Len(text) - 1))
         + DigitValue(SubSeq(text, Len(text), Len(text)))

\* A decimal integer, with an optional minus sign.
IsInteger(text) ==
    \/ IsDigits(text)
    \/ Len(text) >= 2 /\ Head(text) = "-" /\ IsDigits(Tail(text))

\* An int path atom: "#" followed by the decimal int.
IsIndex(atom) == Len(atom) >= 2 /\ Head(atom) = "#" /\ IsInteger(Tail(atom))

\* The int an int atom stands for.
IndexValue(atom) ==
    IF SubSeq(atom, 2, 2) = "-" THEN 0 - Natural(SubSeq(atom, 3, Len(atom)))
    ELSE Natural(Tail(atom))

\* The int atom of an int.
IndexAtom(index) == "#" \o ToString(index)

\* The first delta of input_delta whose field name is mentioned in text.
RECURSIVE MentionedDelta(_, _)
MentionedDelta(text, input_delta) ==
    IF input_delta = << >> THEN NoDelta
    ELSE LET delta == Head(input_delta)
             name == delta.path[Len(delta.path)]
         IN  IF Len(delta.path) > 0 /\ ~IsIndex(name) /\ Find(text, <<name>>)
             THEN delta
             ELSE MentionedDelta(text, Tail(input_delta))

\* invalid_input_message(text, input_delta) -> (is_invalid, responsible_path)
invalid_input_message(text, input_delta) ==
    IF Find(text, <<"invalid">>)
    THEN [is_invalid |-> TRUE, path |-> NoPath]
    ELSE LET delta == MentionedDelta(text, input_delta)
         IN  IF delta # NoDelta
             THEN [is_invalid |-> TRUE, path |-> delta.path]
             ELSE [is_invalid |-> FALSE, path |-> NoPath]

Lower(word) ==
    CASE word = "ERROR" -> "error"
      [] word = "WARN" -> "warn"
      [] word = "FATAL" -> "fatal"
      [] word = "INFO" -> "info"
      [] OTHER -> word

EmptyParse == [level |-> "", msg |-> << >>]

\* parse_log(line): the level and the message of a line, {} when it has none.
parse_log(line) ==
    IF line # << >> /\ Lower(Head(line)) \in {"info", "warn", "error", "fatal"}
    THEN [level |-> Head(line), msg |-> Tail(line)]
    ELSE EmptyParse

(***************************************************************************)
(* InputOracle                                                             *)
(***************************************************************************)
\* check_input with the stdout/stderr scan for 'unchanged' moved before the
\* invalid-input test.
check_input_unchanged_first(snap, input_delta) ==
    LET stdout == snap.cli_result.stdout
        stderr == snap.cli_result.stderr
        message == invalid_input_message(stderr, input_delta)
        is_invalid == message.is_invalid \/ Len(stderr) > 0
    IN  IF Find(stderr, <<"connection", "refused">>)
        THEN ConnectionRefusedResult
        ELSE IF Find(stdout, <<"unchanged">>) \/ Find(stderr, <<"unchanged">>)
        THEN UnchangedInputResult
        ELSE IF is_invalid
        THEN InvalidInputResult(message.path)
        ELSE PassResult

check_input(snap, input_delta) ==
    LET stdout == snap.cli_result.stdout
        stderr == snap.cli_result.stderr
        message == invalid_input_message(stderr, input_delta)
        is_invalid == message.is_invalid \/ Len(stderr) > 0
    IN  IF Find(stderr, <<"connection", "refused">>)
        THEN ConnectionRefusedResult
        ELSE IF is_invalid
        THEN InvalidInputResult(message.path)
        ELSE IF Find(stdout, <<"unchanged">>) \/ Find(stderr, <<"unchanged">>)
        THEN UnchangedInputResult
        ELSE PassResult

(***************************************************************************)
(* LogOracle                                                               *)
(***************************************************************************)
\* The string values of a parsed line that are not empty, in dict order.
LogValues(parsed_log) ==
    SelectSeq(<<<<parsed_log.level>>, parsed_log.msg>>, LAMBDA value : value # << >>)

RECURSIVE FirstInvalid(_, _)
FirstInvalid(values, input_delta) ==
    IF values = << >> THEN [is_invalid |-> FALSE, path |-> NoPath]
    ELSE LET message == invalid_input_message(Head(values), input_delta)
         IN  IF message.is_invalid THEN message
             ELSE FirstInvalid(Tail(values), input_delta)

RECURSIVE ScanLog(_, _)
ScanLog(log, input_delta) ==
    IF log = << >> THEN PassResult
    ELSE LET parsed_log == parse_log(Head(log))
         IN  IF parsed_log = EmptyParse
                \/ Lower(parsed_log.level) \notin {"warn", "error", "fatal"}
             THEN ScanLog(Tail(log), input_delta)
             ELSE LET message == FirstInvalid(LogValues(parsed_log), input_delta)
                  IN  IF message.is_invalid
                      THEN InvalidInputResult(message.path)
                      ELSE ScanLog(Tail(log), input_delta)

check_operator_log(snap, prev_snap, exclude) ==
    ScanLog(snap.operator_log, get_deltas(snap, prev_snap, exclude).input_delta)

(***************************************************************************)
(* DependencyIndex: construction                                           *)
(***************************************************************************)
\* json.dumps of a path: every atom becomes a token that keeps its JSON type.
json_dumps(path) ==
    [i \in 1..Len(path) |->
        IF IsIndex(path[i]) THEN <<"int", path[i]>> ELSE <<"str", path[i]>>]

json_loads(encoded_path) == [i \in 1..Len(encoded_path) |-> encoded_path[i][2]]

is_subfield(subpath, path) == IsPrefix(path, subpath)

Keys(map) == [i \in 1..Len(map) |-> map[i].key]

HasKey(map, encoded_path) == \E i \in 1..Len(map) : map[i].key = encoded_path

IndexOf(map, encoded_path) == CHOOSE i \in 1..Len(map) : map[i].key = encoded_path

\* The dict of lines 62-66.
EnabledCondition(dependee) == [field |-> dependee, op |-> "==", value |-> V("'true'")]

\* A condition dict as json.dumps shows it: its 'field', 'op' and 'value'.
Record(condition) ==
    [field |-> condition.field, op |-> condition.op, value |-> condition.value]

\* A stored condition: the dict, with in field_id the identity of the list object
\* its 'field' holds (two records hold the same list iff their field_id is equal).
Stored(condition, field_id) ==
    [field |-> condition.field, op |-> condition.op, value |-> condition.value,
     field_id |-> field_id]

\* The identities of the 'field' lists in the map.
FieldIds(map) ==
    UNION {{map[e].conditions[c].field_id : c \in 1..Len(map[e].conditions)} :
              e \in 1..Len(map)}

\* The identity of a list object created now: one that no record holds.
NewFieldId(map) ==
    IF FieldIds(map) = {} THEN 1
    ELSE 1 + (CHOOSE m \in FieldIds(map) : \A n \in FieldIds(map) : n <= m)

\* Lines 60-66: `record` appended under every key that is a subfield of depender.
AppendedUnder(map, depender, record) ==
    [i \in 1..Len(map) |->
        IF is_subfield(json_loads(map[i].key), depender)
        THEN [map[i] EXCEPT !.conditions = Append(@, record)]
        ELSE map[i]]

\* Lines 56-58: the depender becomes a key when it is none.
WithKey(map, encoded_path) ==
    IF HasKey(map, encoded_path) THEN map
    ELSE Append(map, [key |-> encoded_path, conditions |-> << >>])

\* Every record appended by one call holds the caller's one `dependee` list.
encode_dependency(map, depender, dependee) ==
    AppendedUnder(WithKey(map, json_dumps(depender)), depender,
                  Stored(EnabledCondition(dependee), NewFieldId(map)))

RECURSIVE helper(_, _, _)
RECURSIVE helper_properties(_, _, _, _)
helper(map, model, path) ==
    IF path \notin DOMAIN model \/ model[path].type # "object" THEN map
    ELSE helper_properties(map, model, path, model[path].properties)

helper_properties(map, model, path, keys) ==
    IF keys = << >> THEN map
    ELSE LET key == Head(keys)
             child == path \o <<key>>
             encoded == IF key = "enabled"
                        THEN encode_dependency(map, path, child) ELSE map
             walked == IF model[child].type = "object"
                       THEN helper(encoded, model, child)
                       ELSE IF model[child].type = "array"
                       THEN helper(encoded, model, child \o <<"ITEM">>)
                       ELSE encoded
         IN  helper_properties(walked, model, path, Tail(keys))

\* Checker.__init__: the map is the analysis result's when analysis is enabled.
InitMap(ctx, model) ==
    helper(IF ctx.enable_analysis THEN ctx.analysis_result.field_conditions_map
           ELSE << >>,
           model, << >>)

(***************************************************************************)
(* SkipEngine                                                              *)
(***************************************************************************)
\* A str scalar is written between single quotes.
IsStr(scalar) ==
    /\ Len(scalar) >= 2
    /\ Head(scalar) = "'"
    /\ SubSeq(scalar, Len(scalar), Len(scalar)) = "'"

\* len() of a str scalar.
StrLen(scalar) == Len(scalar) - 2

\* The item a sequence of `length` items gives for an int index: a negative
\* index counts from the end.
ItemIndex(index, length) == IF index < 0 THEN index + length ELSE index

InRange(index, length) ==
    ItemIndex(index, length) >= 0 /\ ItemIndex(index, length) < length

\* str[index], for an index in range: the one-character str.
CharAt(scalar, index) ==
    "'" \o SubSeq(scalar, ItemIndex(index, StrLen(scalar)) + 2,
                  ItemIndex(index, StrLen(scalar)) + 2) \o "'"

\* operator.getitem along `path` from a scalar: a str is indexed by an int, any
\* other getitem on a scalar is a TypeError.
RECURSIVE DescendScalar(_, _)
DescendScalar(scalar, path) ==
    IF path = << >> THEN [exception |-> "", value |-> V(scalar)]
    ELSE IF ~IsStr(scalar) \/ ~IsIndex(Head(path))
    THEN [exception |-> "TypeError", value |-> None]
    ELSE IF ~InRange(IndexValue(Head(path)), StrLen(scalar))
    THEN [exception |-> "IndexError", value |-> None]
    ELSE DescendScalar(CharAt(scalar, IndexValue(Head(path))), Tail(path))

\* reduce(operator.getitem, path, input): the value reached, or the exception.
RECURSIVE Descend(_, _, _)
Descend(doc, at, path) ==
    IF path = << >> THEN [exception |-> "", value |-> ValueAt(doc, at)]
    ELSE LET atom == Head(path)
             children == {l[Len(at) + 1] :
                            l \in {l \in DOMAIN doc : IsPrefix(at, l) /\ l # at}}
             is_list == \A c \in children : IsIndex(c)
         IN  IF at \in DOMAIN doc
             THEN CASE doc[at] = "{}" -> [exception |-> "KeyError", value |-> None]
                    [] doc[at] = "[]" ->
                         [exception |-> IF IsIndex(atom) THEN "IndexError"
                                        ELSE "TypeError", value |-> None]
                    [] OTHER -> DescendScalar(doc[at], path)
             ELSE IF is_list
             THEN IF ~IsIndex(atom) THEN [exception |-> "TypeError", value |-> None]
                  ELSE IF ~InRange(IndexValue(atom), Cardinality(children))
                  THEN [exception |-> "IndexError", value |-> None]
                  ELSE Descend(doc,
                               Append(at, IndexAtom(ItemIndex(IndexValue(atom),
                                                    Cardinality(children)))),
                               Tail(path))
             ELSE IF atom \notin children
             THEN [exception |-> "KeyError", value |-> None]
             ELSE Descend(doc, Append(at, atom), Tail(path))

\* translate_op(op)(a, b)
ApplyOp(op, a, b) == IF op = "==" THEN PyEq(a, b) ELSE ~PyEq(a, b)

\* check_condition: what it returns (or raises) and the condition record as the
\* call leaves it (the path and the value are rewritten in place).
\* Lines 309-311: 'INDEX' becomes 0 in the path of the stored condition.
Indexed(condition) ==
    [condition EXCEPT
       !.field = [i \in 1..Len(@) |-> IF @[i] = "INDEX" THEN "#0" ELSE @[i]]]

\* Lines 313-327, with `got` the outcome of the reduce of line 314: what
\* check_condition returns (or raises) and the condition record as it is left.
Evaluated(condition, indexed, got) ==
    LET coerced == [indexed EXCEPT
                      !.value = IF PyEq(@, V("'true'")) THEN V("True") ELSE V("False")]
    IN  IF got.exception \in {"KeyError", "TypeError"}
        THEN [raised |-> FALSE, condition |-> indexed,
              ret |-> (condition.op = "==" /\ PyEq(condition.value, None))]
        ELSE IF got.exception # ""
        THEN [raised |-> TRUE, condition |-> indexed, ret |-> FALSE]
        ELSE IF ApplyOp(condition.op, got.value, condition.value)
        THEN [raised |-> FALSE, condition |-> indexed, ret |-> TRUE]
        ELSE IF IsBool(got.value)
        THEN [raised |-> FALSE, condition |-> coerced,
              ret |-> ApplyOp(condition.op, got.value, coerced.value)]
        ELSE [raised |-> FALSE, condition |-> indexed, ret |-> FALSE]

\* check_condition: the path and the value of the condition are rewritten in place.
check_condition(input, condition) ==
    Evaluated(condition, Indexed(condition),
              Descend(input, << >>, Indexed(condition).field))

\* The loop over the conditions of one key (lines 242-247 and 254-259): stops at
\* the first condition that does not hold, or that raises.
\* The map after check_condition left `condition` in slot k of `entry`: the
\* rewritten 'field' list shows in every record that holds it (line 311).
Written(map, entry, k, condition) ==
    [e \in 1..Len(map) |->
        [key |-> map[e].key,
         conditions |->
            [c \in 1..Len(map[e].conditions) |->
                IF e = entry /\ c = k THEN condition
                ELSE IF map[e].conditions[c].field_id = condition.field_id
                THEN [map[e].conditions[c] EXCEPT !.field = condition.field]
                ELSE map[e].conditions[c]]]]

RECURSIVE EvalConditions(_, _, _, _), AfterCondition(_, _, _, _, _)
\* One pass of the loop, with `checked` what check_condition did to condition k.
AfterCondition(map, entry, k, input, checked) ==
    IF checked.raised
    THEN [raised |-> TRUE, ret |-> FALSE,
          map |-> Written(map, entry, k, checked.condition)]
    ELSE IF ~checked.ret
    THEN [raised |-> FALSE, ret |-> TRUE,
          map |-> Written(map, entry, k, checked.condition)]
    ELSE EvalConditions(Written(map, entry, k, checked.condition), entry, k + 1,
                        input)

\* Lines 241-247 (and 253-259): the conditions of one key, from condition k on.
EvalConditions(map, entry, k, input) ==
    CHOOSE out \in
        {IF k > Len(m[entry].conditions)
         THEN [raised |-> FALSE, ret |-> FALSE, map |-> m]
         ELSE AfterCondition(m, entry, k, input,
                             check_condition(input, m[entry].conditions[k])) :
            m \in {map}} : TRUE

\* find_nearest_parent: `length` stays 0, so every matching key replaces ret.
RECURSIVE find_nearest_parent_from(_, _, _)
find_nearest_parent_from(path, encoded_path_list, ret) ==
    IF encoded_path_list = << >> THEN ret
    ELSE LET p == json_loads(Head(encoded_path_list))
             rest == Tail(encoded_path_list)
         IN  IF Len(p) > Len(path) THEN find_nearest_parent_from(path, rest, ret)
             ELSE IF \E i \in 1..Len(p) : p[i] # path[i]
             THEN find_nearest_parent_from(path, rest, ret)
             ELSE IF Len(p) > 0 THEN find_nearest_parent_from(path, rest, p)
             ELSE find_nearest_parent_from(path, rest, ret)

find_nearest_parent(path, encoded_path_list) ==
    find_nearest_parent_from(path, encoded_path_list, NoPath)

\* input_model.get_schema_by_path: list indices select the item schema.
SchemaPath(path) == [i \in 1..Len(path) |-> IF IsIndex(path[i]) THEN "ITEM" ELSE path[i]]

Absent(value) == PyEq(value, None) \/ value = NotPresent

\* Rule D1 (lines 226-235); a failed schema lookup is caught and skips nothing.
DefaultNoOp(model, delta) ==
    /\ SchemaPath(delta.path) \in DOMAIN model
    /\ LET default_value == model[SchemaPath(delta.path)].default
       IN  \/ PyEq(delta.prev, default_value) /\ Absent(delta.curr)
           \/ PyEq(delta.curr, default_value) /\ Absent(delta.prev)

\* re.match(r"^\d$", str(atom)): the ints 0..9 and the strs of one decimal
\* digit, a newline after the digit allowed ($ also matches before a final newline).
IsDigit(atom) ==
    IF IsIndex(atom) THEN IndexValue(atom) >= 0 /\ IndexValue(atom) <= 9
    ELSE /\ Len(atom) \in {1, 2}
         /\ IsDigitChar(Head(atom))
         /\ Len(atom) = 2 => Tail(atom) = "\n"

\* Rule D4 (lines 267-281)
ControlFlowGate(ctx, path) ==
    /\ ctx.enable_analysis
    /\ \E k \in 1..Len(ctx.analysis_result.control_flow_fields) :
         LET control_flow_field == ctx.analysis_result.control_flow_fields[k]
         IN  /\ Len(path) = Len(control_flow_field)
             /\ \A i \in 1..Len(path) :
                   \/ control_flow_field[i] = "INDEX" /\ IsDigit(path[i])
                   \/ path[i] = control_flow_field[i]

\* Rules D2 and D3 (lines 238-259): the conditions of the exact key, else those of
\* the nearest parent key.
Dependency(map, input_delta, snap) ==
    LET encoded_path == json_dumps(input_delta.path)
        parent == find_nearest_parent(input_delta.path, Keys(map))
    IN  IF HasKey(map, encoded_path)
        THEN EvalConditions(map, IndexOf(map, encoded_path), 1, snap.input)
        ELSE IF parent # NoPath
        THEN EvalConditions(map, IndexOf(map, json_dumps(parent)), 1, snap.input)
        ELSE [raised |-> FALSE, ret |-> FALSE, map |-> map]

\* Lines 261-283, reached when no condition failed.
AfterDependency(ctx, input_delta, dependency) ==
    IF dependency.raised \/ dependency.ret THEN dependency
    ELSE [dependency EXCEPT !.ret = ControlFlowGate(ctx, input_delta.path)]

should_skip_input_delta(map, ctx, model, input_delta, snap) ==
    IF DefaultNoOp(model, input_delta)
    THEN [raised |-> FALSE, ret |-> TRUE, map |-> map]
    ELSE AfterDependency(ctx, input_delta, Dependency(map, input_delta, snap))

(***************************************************************************)
(* Path matching and value comparison                                      *)
(***************************************************************************)
GENERIC_FIELDS == {"name", "key", "value"}

canonicalize(atom) == IF atom = "Replicas" THEN "replicas" ELSE atom

Coerce(scalar) ==
    CASE scalar = "'3'" -> "3"
      [] scalar = "'5'" -> "5"
      [] OTHER -> scalar

Equivalent(a, b) ==
    PyEq([p \in DOMAIN a |-> Coerce(a[p])], [p \in DOMAIN b |-> Coerce(b[p])])

\* CompareMethods.input_compare
input_compare(prev, curr) == Equivalent(prev, curr)

\* CompareMethods.compare
compare(in_prev, in_curr, out_prev, out_curr) ==
    Equivalent(in_prev, out_prev) /\ Equivalent(in_curr, out_curr)

\* Every Diff of a system delta, in the order the three nested loops visit them.
RECURSIVE DeltasFrom(_, _)
DeltasFrom(delta_dict, k) ==
    IF k > Len(KindOrder) THEN << >>
    ELSE (IF KindOrder[k] \in DOMAIN delta_dict THEN delta_dict[KindOrder[k]]
          ELSE << >>) \o DeltasFrom(delta_dict, k + 1)

AllDeltas(delta_dict) == DeltasFrom(delta_dict, 1)

Min(a, b) == IF a < b THEN a ELSE b

\* The while loop of lines 456-461: the number of trailing atoms that agree.
RECURSIVE Position(_, _, _)
Position(path, delta_path, position) ==
    IF canonicalize(path[Len(path) - position])
         = canonicalize(delta_path[Len(delta_path) - position])
    THEN IF position + 1 = Min(Len(path), Len(delta_path)) THEN position + 1
         ELSE Position(path, delta_path, position + 1)
    ELSE position

\* The matching loop that keeps only the first delta of the longest overlap.
RECURSIVE MatchLoopKeepFirst(_, _, _, _)
MatchLoopKeepFirst(path, deltas, results, max_match) ==
    IF deltas = << >> THEN results
    ELSE LET delta == Head(deltas)
             position == Position(path, delta.path, 0)
         IN  IF position > max_match
             THEN MatchLoopKeepFirst(path, Tail(deltas), <<delta>>, position)
             ELSE MatchLoopKeepFirst(path, Tail(deltas), results, max_match)

RECURSIVE MatchLoop(_, _, _, _)
MatchLoop(path, deltas, results, max_match) ==
    IF deltas = << >> THEN results
    ELSE LET delta == Head(deltas)
             position == Position(path, delta.path, 0)
         IN  IF position = max_match /\ position # 0
             THEN MatchLoop(path, Tail(deltas), Append(results, delta), max_match)
             ELSE IF position > max_match
             THEN MatchLoop(path, Tail(deltas), <<delta>>, position)
             ELSE MatchLoop(path, Tail(deltas), results, max_match)

list_matched_fields(path, delta_dict) ==
    IF path[Len(path)] \in GENERIC_FIELDS THEN << >>
    ELSE MatchLoop(path, AllDeltas(delta_dict), << >>, 0)

(***************************************************************************)
(* StateOracle                                                             *)
(***************************************************************************)
WithoutCr(system_delta) ==
    [r \in DOMAIN system_delta \ {"custom_resource_spec"} |-> system_delta[r]]

\* Lines 184-197: the first matched delta that is inconsistent with the input delta.
RECURSIVE FirstInconsistent(_, _)
FirstInconsistent(delta, match_deltas) ==
    IF match_deltas = << >> THEN NoDelta
    ELSE LET match_delta == Head(match_deltas)
         IN  IF ~compare(delta.prev, delta.curr, match_delta.prev, match_delta.curr)
             THEN match_delta
             ELSE FirstInconsistent(delta, Tail(match_deltas))

\* Lines 201-207: the wildcard fallback over every remaining system delta.
Found(delta, system_delta_without_cr) ==
    LET state_deltas == AllDeltas(system_delta_without_cr)
    IN  \E i \in 1..Len(state_deltas) :
            compare(delta.prev, delta.curr, state_deltas[i].prev, state_deltas[i].curr)

\* The loop of lines 170-213 over the input deltas.
RECURSIVE ResourceLoop(_, _, _, _, _, _), ResourceStep(_, _, _, _, _, _, _, _)
\* Lines 176-213 for the first input delta, with `skip` what
\* should_skip_input_delta did and `match_deltas` its longest-suffix matches.
ResourceStep(ctx, model, input_delta, system_delta_without_cr, snap, skip, match_deltas, bad) ==
    IF skip.raised
    THEN [result |-> Raised("IndexError"), map |-> skip.map]
    ELSE IF skip.ret
    THEN ResourceLoop(skip.map, ctx, model, Tail(input_delta),
                      system_delta_without_cr, snap)
    ELSE IF bad # NoDelta
    THEN [result |-> ErrorResult("SYSTEM_STATE",
                        "Matched delta inconsistent with input delta",
                        Head(input_delta), bad),
          map |-> skip.map]
    ELSE IF Len(match_deltas) = 0
            /\ ~Found(Head(input_delta), system_delta_without_cr)
    THEN [result |-> ErrorResult("SYSTEM_STATE",
                        "Found no matching fields for input",
                        Head(input_delta), NoDelta),
          map |-> skip.map]
    ELSE ResourceLoop(skip.map, ctx, model, Tail(input_delta),
                      system_delta_without_cr, snap)

\* The loop of lines 170-213 over the input deltas.
ResourceLoop(map, ctx, model, input_delta, system_delta_without_cr, snap) ==
    IF input_delta = << >> THEN [result |-> PassResult, map |-> map]
    ELSE IF input_compare(Head(input_delta).prev, Head(input_delta).curr)
    THEN ResourceLoop(map, ctx, model, Tail(input_delta),
                      system_delta_without_cr, snap)
    ELSE ResourceStep(ctx, model, input_delta, system_delta_without_cr, snap,
            should_skip_input_delta(map, ctx, model, Head(input_delta), snap),
            list_matched_fields(Head(input_delta).path, system_delta_without_cr),
            FirstInconsistent(Head(input_delta),
                list_matched_fields(Head(input_delta).path,
                                    system_delta_without_cr)))

\* check_resources that also reports a system delta no input delta accounts for.
check_resources_unexplained(map, ctx, model, snap, prev_snap, exclude, writable) ==
    LET deltas == get_deltas(snap, prev_snap, exclude)
    IN  IF ~writable THEN [result |-> Raised("OSError"), map |-> map]
        ELSE IF "custom_resource_spec" \notin DOMAIN deltas.system_state_delta
        THEN [result |-> Raised("KeyError"), map |-> map]
        ELSE IF deltas.input_delta = << >>
                /\ AllDeltas(WithoutCr(deltas.system_state_delta)) # << >>
        THEN [result |-> ErrorResult("SYSTEM_STATE",
                            "Found no matching fields for input",
                            NoDelta, NoDelta),
              map |-> map]
        ELSE ResourceLoop(map, ctx, model, deltas.input_delta,
                          WithoutCr(deltas.system_state_delta), snap)

\* check_resources; `writable` says whether the delta log can be opened.
check_resources(map, ctx, model, snap, prev_snap, exclude, writable) ==
    LET deltas == get_deltas(snap, prev_snap, exclude)
    IN  IF ~writable THEN [result |-> Raised("OSError"), map |-> map]
        ELSE IF "custom_resource_spec" \notin DOMAIN deltas.system_state_delta
        THEN [result |-> Raised("KeyError"), map |-> map]
        ELSE ResourceLoop(map, ctx, model, deltas.input_delta,
                          WithoutCr(deltas.system_state_delta), snap)

(***************************************************************************)
(* check(): the four oracles and the verdict                               *)
(***************************************************************************)
EmptyState == << >>

\* Lines 88-118: the verdict once the StateOracle (`state`: its result, or the
\* exception it raised, and the map it leaves) and the LogOracle have run.
Verdict(prev_system_state, state, log_result) ==
    LET health_result == PassResult
        verdict == IF state.result.type = "Raise" THEN state.result
                   ELSE IF log_result.type = "InvalidInput" THEN log_result
                   ELSE IF health_result.type = "Error" THEN health_result
                   ELSE IF state.result.type = "Error" THEN state.result
                   ELSE IF log_result.type = "Error" THEN log_result
                   ELSE PassResult
    IN  [result |-> verdict, map |-> state.map,
         prev_system_state |-> prev_system_state]

\* The verdict with the StateOracle's Error looked at before the log verdict.
VerdictStateFirst(prev_system_state, state, log_result) ==
    [result |-> IF state.result.type \in {"Raise", "Error"} THEN state.result
                ELSE IF log_result.type = "InvalidInput" THEN log_result
                ELSE PassResult,
     map |-> state.map, prev_system_state |-> prev_system_state]

\* check() that reports the StateOracle's Error before it looks at the log verdict.
check_state_first(map, ctx, model, snap, prev_snap, exclude, writable) ==
    LET deltas == get_deltas(snap, prev_snap, exclude)
        input_res == check_input(snap, deltas.input_delta)
    IN  IF DOMAIN snap.system_state = {}
        THEN [result |-> InvalidInputResult(NoPath), map |-> map,
              prev_system_state |-> prev_snap.system_state]
        ELSE IF input_res.type # "Pass"
        THEN [result |-> input_res, map |-> map,
              prev_system_state |-> deltas.prev_system_state]
        ELSE VerdictStateFirst(deltas.prev_system_state,
                check_resources(map, ctx, model, snap, prev_snap, exclude,
                                writable),
                check_operator_log(snap, prev_snap, exclude))

\* check(snapshot, prev_snapshot, generation): the RunResult (or the exception),
\* the DependencyIndex and prev_snapshot.system_state as the call leaves them.
check(map, ctx, model, snap, prev_snap, exclude, writable) ==
    LET deltas == get_deltas(snap, prev_snap, exclude)
        input_res == check_input(snap, deltas.input_delta)
    IN  IF DOMAIN snap.system_state = {}
        THEN [result |-> InvalidInputResult(NoPath), map |-> map,
              prev_system_state |-> prev_snap.system_state]
        ELSE IF input_res.type # "Pass"
        THEN [result |-> input_res, map |-> map,
              prev_system_state |-> deltas.prev_system_state]
        ELSE Verdict(deltas.prev_system_state,
                     check_resources(map, ctx, model, snap, prev_snap, exclude,
                                     writable),
                     check_operator_log(snap, prev_snap, exclude))

\* A dict node of document t: an inner node whose keys are not list indexes, or
\* an empty dict.
IsDictNode(t, p) ==
    IF p \in DOMAIN t THEN t[p] = "{}"
    ELSE /\ p \in Nodes(t)
         /\ \E l \in DOMAIN t : IsPrefix(p, l) /\ ~IsIndex(l[Len(p) + 1])

\* len(flatten_dict(document, [])): flatten_dict descends through dicts only and
\* lists every other value once.
flatten_dict(t) ==
    Cardinality({p \in Nodes(t) :
                    /\ ~IsDictNode(t, p)
                    /\ \A k \in 0..(Len(p) - 1) : IsDictNode(t, SubSeq(p, 1, k))})

RECURSIVE Sum(_, _)
Sum(f, S) ==
    IF S = {} THEN 0
    ELSE LET x == CHOOSE x \in S : TRUE IN f[x] + Sum(f, S \ {x})

\* count_num_fields' return value, << >> for None.
NoFields == << >>

\* count_num_fields(snapshot, prev_snapshot): what it returns, and
\* prev_snapshot.system_state as get_deltas leaves it.
count_num_fields(snap, prev_snap, exclude) ==
    LET deltas == get_deltas(snap, prev_snap, exclude)
        num_system == Sum([r \in DOMAIN snap.system_state |->
                              flatten_dict(snap.system_state[r])],
                          DOMAIN snap.system_state)
        num_delta == Sum([r \in DOMAIN deltas.system_state_delta |->
                             Len(deltas.system_state_delta[r])],
                         DOMAIN deltas.system_state_delta)
    IN  [ret |-> IF check_input(snap, deltas.input_delta).type # "Pass"
                 THEN NoFields
                 ELSE IF Len(deltas.input_delta) > 0
                 THEN <<num_system, num_delta>>
                 ELSE NoFields,
         prev_system_state |-> deltas.prev_system_state]

(***************************************************************************)
(* The inputs the model draws from                                         *)
(***************************************************************************)
Leaf(path, scalar) == IF scalar = "NotPresent" THEN << >> ELSE (path :> scalar)

\* A custom resource: {spec: {replicas, tls: {enabled, cert, sub: {enabled, x}}, items}}
Input(replicas, enabled, cert, sub_enabled, x, items) ==
    Leaf(<<"spec", "replicas">>, replicas)
    @@ Leaf(<<"spec", "tls", "enabled">>, enabled)
    @@ Leaf(<<"spec", "tls", "cert">>, cert)
    @@ Leaf(<<"spec", "tls", "sub", "enabled">>, sub_enabled)
    @@ Leaf(<<"spec", "tls", "sub", "x">>, x)
    @@ Leaf(<<"spec", "items">>, items)
    @@ (<<"metadata", "name">> :> "'cr'")

PrevInputs ==
    {Input("3", "False", "'a'", "False", "'a'", "NotPresent"),
     Input("3", "True", "'a'", "False", "'a'", "NotPresent")}

CurrInputs ==
    PrevInputs \cup
    {Input("5", "False", "'a'", "False", "'a'", "NotPresent"),
     Input("3", "False", "'b'", "False", "'a'", "NotPresent"),
     Input("3", "True", "'b'", "False", "'a'", "NotPresent"),
     Input("3", "True", "'a'", "False", "'b'", "NotPresent"),
     Input("NotPresent", "False", "'a'", "False", "'a'", "NotPresent"),
     Input("3", "True", "'b'", "False", "'a'", "[]")}

\* A cluster state: the custom resource's spec, one stateful set, and
\* (optionally) one deployment.
StatefulSet(replicas, cert, version) ==
    (<<"db", "spec", "Replicas">> :> replicas)
    @@ (<<"db", "spec", "cert">> :> cert)
    @@ (<<"db", "metadata", "resourceVersion">> :> version)

System(cr_replicas, replicas, cert, version) ==
    [r \in {"custom_resource_spec", "stateful_set"} |->
        IF r = "custom_resource_spec" THEN (<<"replicas">> :> cr_replicas)
        ELSE StatefulSet(replicas, cert, version)]

Deployment == (<<"web", "spec", "replicas">> :> "1")

PrevSystems == {EmptyState, System("3", "3", "'a'", "1")}

CurrSystems ==
    {EmptyState,
     [r \in {"stateful_set"} |-> StatefulSet("3", "'a'", "1")],
     System("3", "3", "'a'", "1"),
     System("3", "3", "'a'", "2"),
     System("5", "5", "'a'", "2"),
     System("5", "3", "'a'", "1"),
     System("5", "2", "'a'", "2"),
     System("3", "3", "'b'", "2"),
     System("5", "5", "'a'", "2") @@ [r \in {"deployment"} |-> Deployment]}

CliResults ==
    {[stdout |-> <<"configured">>, stderr |-> << >>],
     [stdout |-> <<"unchanged">>, stderr |-> << >>],
     [stdout |-> << >>, stderr |-> <<"connection", "refused">>],
     [stdout |-> << >>, stderr |-> <<"cert", "rejected">>]}

OperatorLogs ==
    {<< >>,
     <<<<"INFO", "reconciled">>, <<"ERROR", "invalid", "input">>>>,
     <<<<"panic">>, <<"error", "cert", "not", "found">>>>}

Snapshot(input, cli_result, system_state, operator_log) ==
    [input |-> input, cli_result |-> cli_result, system_state |-> system_state,
     operator_log |-> operator_log]

EmptyCli == [stdout |-> << >>, stderr |-> << >>]

\* The arguments of a call, with `writable`: whether the delta log can be opened.
Call(snap, prev_snap, writable) ==
    [snapshot |-> snap, prev_snapshot |-> prev_snap, writable |-> writable]

\* The seed custom resource (line 553) and EmptySnapshot(seed).
Seed == Input("3", "False", "'a'", "False", "'a'", "NotPresent")

EmptySnapshot(seed) == Snapshot(seed, EmptyCli, EmptyState, << >>)

\* The snapshots the files of a trial directory hold (lines 590-600): an apply
\* the cluster followed, one it did not follow, one the API server refused and
\* one that changed nothing.
TrialSnapshots ==
    {Snapshot(Input("5", "False", "'a'", "False", "'a'", "NotPresent"),
              [stdout |-> <<"configured">>, stderr |-> << >>],
              System("5", "5", "'a'", "2"), << >>),
     Snapshot(Input("3", "True", "'a'", "False", "'b'", "NotPresent"),
              [stdout |-> <<"configured">>, stderr |-> << >>],
              System("3", "3", "'a'", "1"), << >>),
     Snapshot(Input("5", "False", "'a'", "False", "'a'", "NotPresent"),
              [stdout |-> << >>, stderr |-> <<"connection", "refused">>],
              System("3", "3", "'a'", "1"), << >>),
     Snapshot(Input("5", "False", "'a'", "False", "'a'", "NotPresent"),
              [stdout |-> <<"unchanged">>, stderr |-> << >>],
              System("3", "3", "'a'", "1"), << >>)}

\* The predecessors: EmptySnapshot(seed) or a snapshot kept from an earlier generation.
PrevSnapshots ==
    {Snapshot(i, EmptyCli, s, << >>) : i \in PrevInputs, s \in PrevSystems}

\* Calls whose apply succeeded and whose log is empty: every input and cluster state.
StateCalls ==
    {Call(Snapshot(i, [stdout |-> <<"configured">>, stderr |-> << >>], s, << >>),
          prev_snap, TRUE) :
        i \in CurrInputs, s \in CurrSystems, prev_snap \in PrevSnapshots}

\* Calls with every apply output and log, on a few inputs and cluster states.
VerdictCalls ==
    {Call(Snapshot(i, c, s, l),
          Snapshot(Input("3", "False", "'a'", "False", "'a'", "NotPresent"),
                   EmptyCli, System("3", "3", "'a'", "1"), << >>),
          writable) :
        i \in {Input("3", "False", "'a'", "False", "'a'", "NotPresent"),
               Input("5", "False", "'a'", "False", "'a'", "NotPresent"),
               Input("3", "True", "'b'", "False", "'a'", "NotPresent")},
        c \in CliResults,
        s \in {EmptyState,
               [r \in {"stateful_set"} |-> StatefulSet("3", "'a'", "1")],
               System("5", "5", "'a'", "2"),
               System("5", "2", "'a'", "2")},
        l \in OperatorLogs,
        writable \in BOOLEAN}

\* Calls check(A, A, g): the successor is the predecessor itself.
IdentityCalls ==
    {Call(Snapshot(i, c, s, l), Snapshot(i, c, s, l), TRUE) :
        i \in PrevInputs,
        c \in CliResults,
        s \in {EmptyState, System("3", "3", "'a'", "1")},
        l \in OperatorLogs}

Calls == StateCalls \cup VerdictCalls \cup IdentityCalls

\* The input schema; tls_properties is the order the properties of tls are listed in.
Schema(tls_properties) ==
    LET object(properties) == [type |-> "object", properties |-> properties,
                               default |-> None]
        leaf(default) == [type |-> "leaf", properties |-> << >>, default |-> default]
    IN  (<< >> :> object(<<"spec">>))
        @@ (<<"spec">> :> object(<<"replicas", "tls", "items">>))
        @@ (<<"spec", "replicas">> :> leaf(V("3")))
        @@ (<<"spec", "tls">> :> object(tls_properties))
        @@ (<<"spec", "tls", "enabled">> :> leaf(None))
        @@ (<<"spec", "tls", "cert">> :> leaf(None))
        @@ (<<"spec", "tls", "sub">> :> object(<<"enabled", "x">>))
        @@ (<<"spec", "tls", "sub", "enabled">> :> leaf(None))
        @@ (<<"spec", "tls", "sub", "x">> :> leaf(None))
        @@ (<<"spec", "items">> :> [type |-> "array", properties |-> << >>,
                                     default |-> None])
        @@ (<<"spec", "items", "ITEM">> :> object(<<"name">>))
        @@ (<<"spec", "items", "ITEM", "name">> :> leaf(None))

Schemas == {Schema(<<"enabled", "cert", "sub">>), Schema(<<"sub", "cert", "enabled">>)}

\* context['analysis_result'] as the static analysis supplies it.
AnalysisResult ==
    [field_conditions_map |->
        <<[key |-> json_dumps(<<"spec", "tls", "sub">>), conditions |-> << >>],
          [key |-> json_dumps(<<"spec", "tls", "cert">>),
           conditions |-> <<Stored([field |-> <<"spec", "items", "INDEX", "name">>,
                                    op |-> "!=", value |-> None], 1)>>]>>,
     control_flow_fields |-> <<<<"spec", "items", "INDEX">>,
                               <<"spec", "tls", "enabled">>>>]

Contexts == {[enable_analysis |-> e, analysis_result |-> AnalysisResult] : e \in BOOLEAN}

EXCLUDE_PATH_REGEX == {"resourceVersion"}

(***************************************************************************)
(* The Checker and the harness that calls it                               *)
(***************************************************************************)
NoSnapshot == Snapshot(EmptyDict, [stdout |-> << >>, stderr |-> << >>],
                       EmptyState, << >>)

NoArgs == [snapshot |-> NoSnapshot, prev_snapshot |-> NoSnapshot,
           generation |-> 0, writable |-> TRUE]

NoResult == [type |-> "None"]

NoCli == [stdout |-> << >>, stderr |-> << >>, input_delta |-> << >>]

NoMatchArgs == [path |-> NoPath, delta_dict |-> EmptyState]

Others == <<cli, input_result, match_args, match_result>>

\* The driver's statistics.
Statistics == <<num_alarms, alarm, num_system_fields_list, num_delta_fields_list>>

\* self.context after the Checker's map changed: with enable_analysis the map is
\* the dict context['analysis_result']['field_conditions_map'] itself (line 29).
Aliased(ctx, map) ==
    IF ctx.enable_analysis
    THEN [ctx EXCEPT !.analysis_result.field_conditions_map = map]
    ELSE ctx

Last(list) == list[Len(list)]

\* Checker(context, trial_dir, input_model) built on ctx (lines 20-32), and the
\* driver's variables of a trial that begins (lines 569-572).
Constructed(ctx, model, map) ==
    /\ context = Aliased(ctx, map)
    /\ input_model = model
    /\ field_conditions_map = map
    /\ map_constructed = map
    /\ map_before = map
    /\ snapshots = <<EmptySnapshot(Seed)>>
    /\ alarm = FALSE
    /\ generation = 0
    /\ pc = "idle"
    /\ args = NoArgs
    /\ snapshot = NoSnapshot
    /\ prev_snapshot = NoSnapshot
    /\ result = NoResult
    /\ num_fields = NoFields

\* The driver enables the analysis (line 550); another caller may leave it off.
Init ==
    /\ caller \in {"driver", "client"}
    /\ \E ctx \in Contexts, model \in Schemas :
          /\ caller = "driver" => ctx.enable_analysis
          /\ Constructed(ctx, model, InitMap(ctx, model))
    /\ trial = 0
    /\ num_alarms = 0
    /\ num_system_fields_list = << >>
    /\ num_delta_fields_list = << >>
    /\ cli = NoCli
    /\ input_result = NoResult
    /\ match_args = NoMatchArgs
    /\ match_result = << >>

\* The state after check(call.snapshot, call.prev_snapshot, generation) is back.
Returned(call, out) ==
    /\ args' = call @@ [generation |-> generation]
    /\ map_before' = field_conditions_map
    /\ field_conditions_map' = out.map
    /\ context' = Aliased(context, out.map)
    /\ snapshot' = call.snapshot
    /\ prev_snapshot' = [call.prev_snapshot EXCEPT
                           !.system_state = out.prev_system_state]
    /\ result' = out.result

\* Lines 602-606: prev_snapshot is the last element of snapshots, so what check()
\* writes into it shows in the list; the append is not reached when check() raises.
Appended(call, out) ==
    /\ Returned(call, out)
    /\ snapshots' =
          IF out.result.type = "Raise"
          THEN [snapshots EXCEPT
                  ![Len(snapshots)].system_state = out.prev_system_state]
          ELSE Append([snapshots EXCEPT
                         ![Len(snapshots)].system_state = out.prev_system_state],
                      call.snapshot)

\* The driver reads the files of the generation and calls check() (lines 590-606);
\* the trial directory it read them from exists, so the delta log can be opened.
Check ==
    /\ caller = "driver"
    /\ pc = "idle"
    /\ generation < Generations
    /\ generation <= MaxGeneration
    /\ \E snap \in TrialSnapshots :
         Appended(Call(snap, Last(snapshots), TRUE),
                  check(field_conditions_map, context, input_model, snap,
                        Last(snapshots), EXCLUDE_PATH_REGEX, TRUE))
    /\ pc' = "checked"
    /\ UNCHANGED <<input_model, caller, trial, generation, map_constructed,
                   num_fields, Statistics, Others>>

\* Another caller of checker.check(snapshot, prev_snapshot, generation).
CheckCall ==
    /\ caller = "client"
    /\ pc = "idle"
    /\ generation <= MaxGeneration
    /\ \E call \in Calls :
         Returned(call, check(field_conditions_map, context, input_model,
                              call.snapshot, call.prev_snapshot,
                              EXCLUDE_PATH_REGEX, call.writable))
    /\ pc' = "checked"
    /\ UNCHANGED <<input_model, caller, trial, snapshots, generation,
                   map_constructed, num_fields, Statistics, Others>>

\* The state after count_num_fields(snapshot, prev_snapshot) is back: get_deltas
\* wrote into prev_snapshot, which the driver's list holds before `snapshot`.
Counted(out) ==
    /\ num_fields' = out.ret
    /\ prev_snapshot' = [prev_snapshot EXCEPT !.system_state = out.prev_system_state]
    /\ snapshots' =
          IF caller = "driver"
          THEN [snapshots EXCEPT
                  ![Len(snapshots) - 1].system_state = out.prev_system_state]
          ELSE snapshots
    /\ num_system_fields_list' =
          IF caller = "driver" /\ out.ret # NoFields
          THEN Append(num_system_fields_list, out.ret[1])
          ELSE num_system_fields_list
    /\ num_delta_fields_list' =
          IF caller = "driver" /\ out.ret # NoFields
          THEN Append(num_delta_fields_list, out.ret[2])
          ELSE num_delta_fields_list

\* On Error or Pass the driver counts the alarm and calls count_num_fields
\* (lines 616-632); another caller calls count_num_fields as the driver does.
CountNumFields ==
    /\ pc = "checked"
    /\ result.type \in {"Error", "Pass"}
    /\ Counted(count_num_fields(snapshot, prev_snapshot, EXCLUDE_PATH_REGEX))
    /\ num_alarms' = IF caller = "driver" /\ result.type = "Error"
                     THEN num_alarms + 1 ELSE num_alarms
    /\ alarm' = (alarm \/ (caller = "driver" /\ result.type = "Error"))
    /\ pc' = "counted"
    /\ UNCHANGED <<context, input_model, field_conditions_map, caller, trial,
                   generation, args, map_constructed, map_before, snapshot, result,
                   Others>>

\* The driver goes on to the next generation: after ConnectionRefused or
\* InvalidInput it drops the snapshot it appended (lines 608-613), after Unchanged
\* it keeps it (614-615), after Error or Pass it has called count_num_fields.
NextGeneration ==
    /\ caller = "driver"
    /\ \/ pc = "checked" /\ result.type \in {"ConnectionRefused", "InvalidInput",
                                              "Unchanged"}
       \/ pc = "counted"
    /\ snapshots' = IF result.type \in {"ConnectionRefused", "InvalidInput"}
                    THEN SubSeq(snapshots, 1, Len(snapshots) - 1)
                    ELSE snapshots
    /\ generation' = generation + 1
    /\ pc' = "idle"
    /\ args' = NoArgs
    /\ map_before' = field_conditions_map
    /\ snapshot' = NoSnapshot
    /\ prev_snapshot' = NoSnapshot
    /\ result' = NoResult
    /\ num_fields' = NoFields
    /\ UNCHANGED <<context, input_model, field_conditions_map, caller, trial,
                   map_constructed, Statistics, Others>>

\* The operator log of the generation is missing: continue (lines 586-587).
SkipGeneration ==
    /\ caller = "driver"
    /\ pc = "idle"
    /\ generation < Generations
    /\ generation <= MaxGeneration
    /\ generation' = generation + 1
    /\ UNCHANGED <<context, input_model, field_conditions_map, caller, trial,
                   snapshots, pc, args, map_constructed, map_before, snapshot,
                   prev_snapshot, result, num_fields, Statistics, Others>>

\* The trial ends (the break of lines 583-584, or the loop is through) and the
\* driver builds the Checker of the next trial on the same context (558-572).
NewChecker ==
    /\ caller = "driver"
    /\ pc = "idle"
    /\ trial < MaxTrials
    /\ trial' = trial + 1
    /\ \E map \in {InitMap(context, input_model)} :
          /\ field_conditions_map' = map
          /\ context' = Aliased(context, map)
          /\ map_constructed' = map
          /\ map_before' = map
    /\ snapshots' = <<EmptySnapshot(Seed)>>
    /\ alarm' = FALSE
    /\ generation' = 0
    /\ UNCHANGED <<input_model, caller, pc, args, snapshot, prev_snapshot, result,
                   num_fields, num_alarms, num_system_fields_list,
                   num_delta_fields_list, Others>>

\* The other caller takes the verdict and goes on to its next call.
Return ==
    /\ caller = "client"
    /\ pc \in {"checked", "counted"}
    /\ pc' = "idle"
    /\ generation' = generation + 1
    /\ args' = NoArgs
    /\ map_before' = field_conditions_map
    /\ snapshot' = NoSnapshot
    /\ prev_snapshot' = NoSnapshot
    /\ result' = NoResult
    /\ num_fields' = NoFields
    /\ UNCHANGED <<context, input_model, field_conditions_map, caller, trial,
                   snapshots, map_constructed, Statistics, Others>>

Next ==
    \/ Check
    \/ CheckCall
    \/ CountNumFields
    \/ NextGeneration
    \/ SkipGeneration
    \/ NewChecker
    \/ Return

Spec == Init /\ [][Next]_vars

(***************************************************************************)
(* SpecInput: check_input applied to drawn stdout, stderr and input deltas *)
(***************************************************************************)
Stdouts == {<< >>, <<"configured">>, <<"unchanged">>, <<"cr", "unchanged", "ok">>}

Stderrs ==
    {<< >>, <<"connection", "refused">>, <<"dial", "connection", "refused", "now">>,
     <<"connection">>, <<"refused", "connection">>, <<"invalid", "value">>,
     <<"unchanged">>, <<"cert", "rejected">>, <<"warning">>}

InputDeltas ==
    {<< >>,
     <<Diff(V("'a'"), V("'b'"), <<"spec", "tls", "cert">>)>>,
     <<Diff(V("3"), V("5"), <<"spec", "replicas">>),
       Diff(V("'a'"), V("'b'"), <<"spec", "tls", "cert">>)>>}

InitInput ==
    /\ caller = "client"
    /\ \E ctx \in {c \in Contexts : ~c.enable_analysis} :
          Constructed(ctx, Schema(<<"enabled", "cert", "sub">>),
                      InitMap(ctx, Schema(<<"enabled", "cert", "sub">>)))
    /\ trial = 0
    /\ num_alarms = 0
    /\ num_system_fields_list = << >>
    /\ num_delta_fields_list = << >>
    /\ cli \in {[stdout |-> o, stderr |-> e, input_delta |-> d] :
                  o \in Stdouts, e \in Stderrs, d \in InputDeltas}
    /\ input_result = NoResult
    /\ match_args = NoMatchArgs
    /\ match_result = << >>

\* input_result = self.check_input(snapshot, input_delta)   (line 84)
CheckInput ==
    /\ pc = "idle"
    /\ input_result' =
          check_input(Snapshot(EmptyDict, [stdout |-> cli.stdout, stderr |-> cli.stderr],
                               EmptyState, << >>),
                      cli.input_delta)
    /\ pc' = "checked"
    /\ UNCHANGED <<context, input_model, field_conditions_map, caller, trial,
                   snapshots, generation, args, map_constructed, map_before,
                   snapshot, prev_snapshot, result, num_fields, Statistics, cli,
                   match_args, match_result>>

NextInput == CheckInput

SpecInput == InitInput /\ [][NextInput]_vars

(***************************************************************************)
(* SpecMatch: _list_matched_fields applied to drawn paths and system deltas *)
(***************************************************************************)
\* The longest list of deltas drawn for one resource kind.
MaxDeltas == 2

MatchPaths ==
    {<<"spec", "replicas">>, <<"replicas">>, <<"spec", "tls", "cert">>,
     <<"status", "replicas">>, <<"spec", "name">>, <<"web", "spec", "replicas">>}

DeltaPaths ==
    {<<"db", "spec", "Replicas">>, <<"web", "spec", "replicas">>,
     <<"db", "status", "replicas">>, <<"db", "spec", "name">>}

SeqsUpTo(S, n) == UNION {[1..k -> S] : k \in 0..n}

DeltaLists ==
    {[i \in 1..Len(paths) |-> Diff(V("3"), V("5"), paths[i])] :
        paths \in SeqsUpTo(DeltaPaths, MaxDeltas)}

InitMatch ==
    /\ caller = "client"
    /\ \E ctx \in {c \in Contexts : ~c.enable_analysis} :
          Constructed(ctx, Schema(<<"enabled", "cert", "sub">>),
                      InitMap(ctx, Schema(<<"enabled", "cert", "sub">>)))
    /\ trial = 0
    /\ num_alarms = 0
    /\ num_system_fields_list = << >>
    /\ num_delta_fields_list = << >>
    /\ cli = NoCli
    /\ input_result = NoResult
    /\ match_args \in {[path |-> path,
                        delta_dict |-> [r \in {"stateful_set", "deployment"} |->
                                          IF r = "stateful_set" THEN s ELSE d]] :
                         path \in MatchPaths, s \in DeltaLists, d \in DeltaLists}
    /\ match_result = << >>

\* match_deltas = self._list_matched_fields(delta.path, ...)   (lines 180-181)
ListMatchedFields ==
    /\ pc = "idle"
    /\ match_result' = list_matched_fields(match_args.path, match_args.delta_dict)
    /\ pc' = "checked"
    /\ UNCHANGED <<context, input_model, field_conditions_map, caller, trial,
                   snapshots, generation, args, map_constructed, map_before,
                   snapshot, prev_snapshot, result, num_fields, Statistics, cli,
                   input_result, match_args>>

NextMatch == ListMatchedFields

SpecMatch == InitMatch /\ [][NextMatch]_vars

(***************************************************************************)
(* The oracles' verdicts on the arguments of the last check()              *)
(***************************************************************************)
ArgDeltas == get_deltas(args.snapshot, args.prev_snapshot, EXCLUDE_PATH_REGEX)

InputVerdict == check_input(args.snapshot, ArgDeltas.input_delta)

LogVerdict == check_operator_log(args.snapshot, args.prev_snapshot, EXCLUDE_PATH_REGEX)

StateVerdict ==
    check_resources(map_before, context, input_model, args.snapshot,
                    args.prev_snapshot, EXCLUDE_PATH_REGEX, args.writable).result

HasSystemState == DOMAIN args.snapshot.system_state # {}

(***************************************************************************)
(* C1                                                                      *)
(***************************************************************************)
\* C1: where the LogOracle yields InvalidInput, check() returns that
\* InvalidInput also when the InputOracle yields ConnectionRefused or Unchanged.
C1_LogInvalidBeforeRefusedAndUnchanged ==
    (/\ pc = "checked"
     /\ HasSystemState
     /\ LogVerdict.type = "InvalidInput"
     /\ InputVerdict.type \in {"ConnectionRefused", "Unchanged"})
    => result = LogVerdict

(***************************************************************************)
(* C2                                                                      *)
(***************************************************************************)
\* C2: when the InputOracle or the LogOracle yields InvalidInput, check() returns
\* no Error; and when the InputOracle yields Pass and the LogOracle InvalidInput(p),
\* check() returns InvalidInput(p) whether the StateOracle yields Pass or Error.
C2_InvalidInputDominatesError ==
    pc = "checked" =>
        /\ (InputVerdict.type = "InvalidInput" \/ LogVerdict.type = "InvalidInput")
              => result.type # "Error"
        /\ (/\ InputVerdict.type = "Pass"
            /\ LogVerdict.type = "InvalidInput"
            /\ StateVerdict.type \in {"Pass", "Error"})
              => result = LogVerdict

C2_Witness ==
    /\ pc = "checked"
    /\ InputVerdict.type = "Pass"
    /\ LogVerdict.type = "InvalidInput"
    /\ LogVerdict.responsible_field # NoPath
    /\ StateVerdict.type = "Error"
    /\ result = LogVerdict

(***************************************************************************)
(* C3 (SpecInput)                                                          *)
(***************************************************************************)
\* C3: check_input returns ConnectionRefused iff stderr contains 'connection
\* refused'; otherwise InvalidInput(responsible_path) iff invalid_input_message
\* signals invalid or stderr is non-empty; otherwise Unchanged iff stdout or stderr
\* contains 'unchanged'; otherwise Pass.
C3_InputOraclePrecedence ==
    pc = "checked" =>
        LET refused == Find(cli.stderr, <<"connection", "refused">>)
            message == invalid_input_message(cli.stderr, cli.input_delta)
            invalid == message.is_invalid \/ cli.stderr # << >>
            unchanged == \/ Find(cli.stdout, <<"unchanged">>)
                         \/ Find(cli.stderr, <<"unchanged">>)
        IN  /\ input_result = ConnectionRefusedResult <=> refused
            /\ ~refused =>
                  (input_result = InvalidInputResult(message.path) <=> invalid)
            /\ (~refused /\ ~invalid) =>
                  (input_result = UnchangedInputResult <=> unchanged)
            /\ (~refused /\ ~invalid /\ ~unchanged) => input_result = PassResult
            /\ input_result.type = "InvalidInput" => ~refused
            /\ input_result.type = "Unchanged" => (~refused /\ ~invalid)
            /\ input_result.type = "Pass" => (~refused /\ ~invalid /\ ~unchanged)

\* stderr says 'unchanged' and nothing else: InvalidInput takes precedence.
C3_Witness ==
    /\ pc = "checked"
    /\ Find(cli.stderr, <<"unchanged">>)
    /\ input_result.type = "InvalidInput"

(***************************************************************************)
(* C5 (SpecMatch)                                                          *)
(***************************************************************************)
\* The number of trailing atoms two paths share after canonicalization.
Overlap(p, q) ==
    LET agree(k) == \A j \in 0..(k - 1) :
                        canonicalize(p[Len(p) - j]) = canonicalize(q[Len(q) - j])
    IN  CHOOSE k \in 0..Min(Len(p), Len(q)) :
            /\ agree(k)
            /\ \A l \in (k + 1)..Min(Len(p), Len(q)) : ~agree(l)

MaxOverlap(path, deltas) ==
    LET overlaps == {Overlap(path, deltas[i].path) : i \in 1..Len(deltas)} \cup {0}
    IN  CHOOSE m \in overlaps : \A o \in overlaps : o <= m

\* C5: _list_matched_fields(P, D) returns exactly the deltas of D whose overlap
\* with P is the maximum over D: every tie, none shorter, nothing when the
\* maximum is 0, and nothing when the last atom of P is a generic field.
C5_LongestSuffixMatches ==
    pc = "checked" =>
        LET path == match_args.path
            deltas == AllDeltas(match_args.delta_dict)
            longest == MaxOverlap(path, deltas)
            IsLongest(delta) == longest > 0 /\ Overlap(path, delta.path) = longest
        IN  match_result = IF path[Len(path)] \in GENERIC_FIELDS THEN << >>
                           ELSE SelectSeq(deltas, IsLongest)

\* Two deltas tie at the longest overlap while a third one overlaps less.
C5_Witness ==
    /\ pc = "checked"
    /\ Len(match_result) >= 2
    /\ \E i \in 1..Len(AllDeltas(match_args.delta_dict)) :
          LET overlap == Overlap(match_args.path,
                                 AllDeltas(match_args.delta_dict)[i].path)
          IN  overlap > 0 /\ overlap < Overlap(match_args.path, match_result[1].path)

(***************************************************************************)
(* C4                                                                      *)
(***************************************************************************)
\* The condition of C4 on one input delta: input-equivalent, skipped, every
\* longest-suffix match consistent, or (no match) some system delta consistent.
DeltaAccounted(delta, system_delta_without_cr) ==
    LET skip == should_skip_input_delta(map_before, context, input_model, delta,
                                        args.snapshot)
        M == list_matched_fields(delta.path, system_delta_without_cr)
    IN  \/ input_compare(delta.prev, delta.curr)
        \/ (~skip.raised /\ skip.ret)
        \/ /\ M # << >>
           /\ \A i \in 1..Len(M) :
                 compare(delta.prev, delta.curr, M[i].prev, M[i].curr)
        \/ /\ M = << >>
           /\ Found(delta, system_delta_without_cr)

\* C4: when check() runs the StateOracle, check_resources returns Pass iff every
\* input delta is input-equivalent, skipped, consistent with all its longest-suffix
\* matches or (without matches) with some system delta outside
\* custom_resource_spec; otherwise it returns Error(SYSTEM_STATE).
C4_StateOraclePassIffAccounted ==
    (pc = "checked" /\ HasSystemState /\ InputVerdict.type = "Pass") =>
        LET input_delta == ArgDeltas.input_delta
            system_delta_without_cr == WithoutCr(ArgDeltas.system_state_delta)
            accounted == \A i \in 1..Len(input_delta) :
                            DeltaAccounted(input_delta[i], system_delta_without_cr)
        IN  /\ StateVerdict = PassResult <=> accounted
            /\ ~accounted => (/\ StateVerdict.type = "Error"
                              /\ StateVerdict.oracle = "SYSTEM_STATE")

(***************************************************************************)
(* C6                                                                      *)
(***************************************************************************)
\* C6: after check(snapshot, prev_snapshot, g) both snapshots equal what they
\* were before the call.
C6_SnapshotsReadOnly ==
    pc = "checked" =>
        /\ snapshot = args.snapshot
        /\ prev_snapshot = args.prev_snapshot

(***************************************************************************)
(* C7                                                                      *)
(***************************************************************************)
\* C7: after any sequence of check() calls the field_conditions_map equals its
\* value at the end of __init__.
C7_DependencyIndexImmutable ==
    field_conditions_map = map_constructed

(***************************************************************************)
(* C8                                                                      *)
(***************************************************************************)
\* C8: calling check() again with the arguments of the call that just returned
\* returns the same RunResult.
C8_RepeatedCallSameResult ==
    pc = "checked" =>
        check(field_conditions_map, context, input_model, snapshot, prev_snapshot,
              EXCLUDE_PATH_REGEX, args.writable).result = result

(***************************************************************************)
(* C9                                                                      *)
(***************************************************************************)
\* Further entries of EXCLUDE_PATH_REGEX.
ExtraExcludes == {{"Replicas"}, {"cert"}}

IsStateError(run_result) ==
    run_result.type = "Error" /\ run_result.oracle = "SYSTEM_STATE"

MaskedResult(extra) ==
    check(map_before, context, input_model, args.snapshot, args.prev_snapshot,
          EXCLUDE_PATH_REGEX \cup extra, args.writable).result

\* C9 as stated: if check() with the exclude set E returns a verdict other than
\* Error(SYSTEM_STATE), check() with a superset E' does not return
\* Error(SYSTEM_STATE).
C9_MonotoneMasking ==
    pc = "checked" =>
        \A extra \in ExtraExcludes :
            ~IsStateError(result) => ~IsStateError(MaskedResult(extra))

\* C9 as amended: further exclude entries only remove deltas from the
\* system-state delta; the input delta and the verdicts of the InputOracle and
\* the LogOracle are the same, and so is a verdict of check() that is decided
\* before the StateOracle runs.
C9_MaskingOnlyRemovesSystemDeltas ==
    pc = "checked" =>
        \A extra \in ExtraExcludes :
            LET exclude == EXCLUDE_PATH_REGEX \cup extra
                deltas == get_deltas(args.snapshot, args.prev_snapshot,
                                     EXCLUDE_PATH_REGEX)
                masked == get_deltas(args.snapshot, args.prev_snapshot, exclude)
                input_res == check_input(args.snapshot, deltas.input_delta)
            IN  /\ masked.input_delta = deltas.input_delta
                /\ DOMAIN masked.system_state_delta = DOMAIN deltas.system_state_delta
                /\ \A r \in DOMAIN masked.system_state_delta :
                      masked.system_state_delta[r] =
                          SelectSeq(deltas.system_state_delta[r],
                                    LAMBDA d : ~Excluded(d.path, extra))
                /\ check_input(args.snapshot, masked.input_delta) = input_res
                /\ check_operator_log(args.snapshot, args.prev_snapshot, exclude)
                      = LogVerdict
                /\ (~HasSystemState \/ input_res.type # "Pass")
                      => MaskedResult(extra) = result

\* Excluding the system delta that matched the input delta turns Pass into Error.
C9_Witness ==
    /\ pc = "checked"
    /\ result = PassResult
    /\ Len(ArgDeltas.input_delta) > 0
    /\ \E extra \in ExtraExcludes :
          /\ IsStateError(MaskedResult(extra))
          /\ get_deltas(args.snapshot, args.prev_snapshot,
                        EXCLUDE_PATH_REGEX \cup extra).input_delta
                = ArgDeltas.input_delta

(***************************************************************************)
(* C10                                                                     *)
(***************************************************************************)
\* C10: when a fresh Checker built with enable_analysis = false returns a
\* non-Error verdict, a fresh Checker built with enable_analysis = true, on the
\* same schema and snapshots, returns no Error.
C10_SkipMonotonicity ==
    (/\ pc = "checked"
     /\ ~context.enable_analysis
     /\ map_before = InitMap(context, input_model)
     /\ result.type \notin {"Error", "Raise"})
    => LET analysis == [context EXCEPT !.enable_analysis = TRUE]
       IN  check(InitMap(analysis, input_model), analysis, input_model,
                 args.snapshot, args.prev_snapshot, EXCLUDE_PATH_REGEX,
                 args.writable).result.type # "Error"

(***************************************************************************)
(* C11                                                                     *)
(***************************************************************************)
\* C11: check() always ends by returning a RunResult; no exception leaves it.
C11_NoExceptionEscapes ==
    pc = "checked" => result.type # "Raise"

(***************************************************************************)
(* C12                                                                     *)
(***************************************************************************)
\* C12 as stated: every RunResult check(A, A, g) returns is one of Pass,
\* Unchanged, InvalidInput.
C12_IdentityVerdicts ==
    (/\ pc = "checked"
     /\ args.snapshot = args.prev_snapshot
     /\ result.type # "Raise")
    => result.type \in {"Pass", "Unchanged", "InvalidInput"}

\* C12 as amended: when the input delta is empty, as it is for check(A, A, g),
\* check() does not return Error(SYSTEM_STATE), whatever the system-state delta
\* is; what it returns is one of Pass, Unchanged, InvalidInput, ConnectionRefused.
C12_NoErrorWithoutInputDelta ==
    pc = "checked" =>
        /\ (args.snapshot = args.prev_snapshot) => (ArgDeltas.input_delta = << >>)
        /\ (ArgDeltas.input_delta = << >>)
              => /\ ~IsStateError(result)
                 /\ result.type \in {"Pass", "Unchanged", "InvalidInput",
                                     "ConnectionRefused", "Raise"}

\* The cluster changed although the input did not, and check() returns Pass.
C12_Witness ==
    /\ pc = "checked"
    /\ ArgDeltas.input_delta = << >>
    /\ AllDeltas(WithoutCr(ArgDeltas.system_state_delta)) # << >>
    /\ result = PassResult

(***************************************************************************)
(* C13                                                                     *)
(***************************************************************************)
\* The longest key that is an elementwise prefix of path, NoPath when none is.
LongestPrefixKey(path, encoded_path_list) ==
    LET prefixes == {json_loads(encoded_path_list[i]) :
                        i \in {i \in 1..Len(encoded_path_list) :
                                 IsPrefix(json_loads(encoded_path_list[i]), path)}}
    IN  IF prefixes = {} THEN NoPath
        ELSE CHOOSE q \in prefixes : \A r \in prefixes : Len(r) <= Len(q)

\* C13: for every input delta whose path is not a key of the DependencyIndex,
\* find_nearest_parent returns the longest key that is a prefix of the path.
C13_NearestParentIsLongest ==
    pc = "checked" =>
        \A i \in 1..Len(ArgDeltas.input_delta) :
            LET path == ArgDeltas.input_delta[i].path
            IN  ~HasKey(map_before, json_dumps(path))
                => find_nearest_parent(path, Keys(map_before))
                      = LongestPrefixKey(path, Keys(map_before))

(***************************************************************************)
(* C14                                                                     *)
(***************************************************************************)
\* C14: in the map the first check() starts with (the one __init__ built), for
\* every object schema node O with a property 'enabled', O's path is a key and
\* every key under O's path carries the condition
\* {field: O.path + ['enabled'], op: '==', value: 'true'}.
C14_EnabledPropagated ==
    (pc = "checked" /\ map_before = map_constructed) =>
        \A O \in {o \in DOMAIN input_model :
                    /\ input_model[o].type = "object"
                    /\ \E k \in 1..Len(input_model[o].properties) :
                          input_model[o].properties[k] = "enabled"} :
            /\ HasKey(map_before, json_dumps(O))
            /\ \A e \in 1..Len(map_before) :
                  IsPrefix(O, json_loads(map_before[e].key))
                  => \E c \in 1..Len(map_before[e].conditions) :
                        Record(map_before[e].conditions[c])
                            = EnabledCondition(O \o <<"enabled">>)

====
